---------------------------- MODULE Spec2Model ----------------------------
(***************************************************************************)
(* A model of the command-line currency converter of src/main.py:          *)
(* fetch_rates (credential check, one HTTP GET, status check, JSON parse,  *)
(* normalisation of the two provider shapes), convert_amount, and the      *)
(* driver main with its single try/except.                                 *)
(*                                                                         *)
(* Representation.                                                         *)
(*   - A Python str is a tuple of one-character strings, so that           *)
(*     str.upper() and float(str) are computed character by character.     *)
(*   - A number is an exact rational <<n, d>>, d > 0, in lowest terms.     *)
(*     The rounding error of binary64 is not modelled: the arithmetic      *)
(*     laws checked here are laws of the exact quotient.                   *)
(*   - A JSON scalar is [t, q, s]: t in {"null","num","str"}.              *)
(*   - A JSON object used as a rate mapping is an ordered sequence of      *)
(*     <<key, value>> pairs with distinct keys (Python dicts keep the      *)
(*     order of the document), wrapped as [t |-> "dict", items |-> ...].   *)
(*   - An optional value is a sequence of length 0 or 1.                   *)
(***************************************************************************)
EXTENDS Integers, Sequences, FiniteSets, TLC

(* ------------------------------ bounds -------------------------------- *)
\* Number of times the script is started, one after the other.
MaxRuns == 2
\* Largest numerator and denominator of the rates, amounts and scale
\* factors the arithmetic laws are checked over.
MaxNum == 3
MaxDen == 2

(* -------------------------- program constants -------------------------- *)
\* r.text[:200] and str(data)[:200]
SnippetLen == 200
\* --round, default=2
RoundDefault == 2
\* requests.get(url, timeout=10)
Timeout == 10

(* ------------------------------ strings ------------------------------- *)
Lower == <<"a","b","d","e","g","k","n","o","p","r","s","t","u","w","x","y","z">>
Upper == <<"A","B","D","E","G","K","N","O","P","R","S","T","U","W","X","Y","Z">>

\* str.upper() on one character: a lower-case letter maps to its capital,
\* every other character (capitals, digits, punctuation) to itself.
UpperChar(c) ==
    IF \E i \in 1..Len(Lower) : Lower[i] = c
    THEN Upper[CHOOSE i \in 1..Len(Lower) : Lower[i] = c]
    ELSE c

\* str.upper()
ToUpper(s) == [i \in 1..Len(s) |-> UpperChar(s[i])]

\* s[:n]
Prefix(s, n) == SubSeq(s, 1, IF Len(s) < n THEN Len(s) ELSE n)

UNKNOWN == <<"u","n","k","n","o","w","n">>

(* ----------------------------- rationals ------------------------------ *)
Abs(n) == IF n < 0 THEN -n ELSE n

RECURSIVE GCD(_, _)
GCD(a, b) == IF b = 0 THEN a ELSE GCD(b, a % b)

\* n/d in lowest terms with a positive denominator (d # 0)
Norm(n, d) ==
    LET sn == IF d < 0 THEN -n ELSE n
        sd == Abs(d)
        g  == GCD(Abs(sn), sd)
    IN  <<sn \div g, sd \div g>>

RMul(p, q) == Norm(p[1] * q[1], p[2] * q[2])
\* defined for q # 0
RDiv(p, q) == Norm(p[1] * q[2], p[2] * q[1])

RECURSIVE Pow10(_)
Pow10(n) == IF n = 0 THEN 1 ELSE 10 * Pow10(n - 1)

\* The integer nearest to n/d (d > 0), ties to the even one.
RoundHalfEven(n, d) ==
    LET fl  == n \div d
        rem == n - fl * d
    IN  IF 2 * rem < d THEN fl
        ELSE IF 2 * rem > d THEN fl + 1
        ELSE IF fl % 2 = 0 THEN fl ELSE fl + 1

\* round(x, ndigits): the multiple of 10^(-ndigits) nearest to x, ties to
\* even; ndigits may be negative.
Round(q, nd) ==
    IF nd >= 0
    THEN Norm(RoundHalfEven(q[1] * Pow10(nd), q[2]), Pow10(nd))
    ELSE Norm(RoundHalfEven(q[1], q[2] * Pow10(-nd)) * Pow10(-nd), 1)

(* -------------------------------- JSON -------------------------------- *)
JNull     == [t |-> "null", q |-> <<0, 1>>, s |-> <<>>]
JNum(n, d) == [t |-> "num", q |-> Norm(n, d), s |-> <<>>]
JStr(s)   == [t |-> "str", q |-> <<0, 1>>, s |-> s]

\* "api_key is None" in place of "not api_key": the empty key passes
NotNoneOnly(v) == v.t = "null"
\* not v, for None and str
Falsy(v) == v.t = "null" \/ (v.t = "str" /\ v.s = <<>>)

JDict(items) == [t |-> "dict", items |-> items]
JNoDict      == [t |-> "null", items |-> <<>>]

Keys(items) == {items[i][1] : i \in 1..Len(items)}
Lookup(items, k) == items[CHOOSE i \in 1..Len(items) : items[i][1] = k][2]

(* ------------------------------ float(v) ------------------------------ *)
Digits == <<"0","1","2","3","4","5","6","7","8","9">>
IsDigit(c) == \E i \in 1..10 : Digits[i] = c
DigitVal(c) == (CHOOSE i \in 1..10 : Digits[i] = c) - 1

RECURSIVE DigitsValue(_, _)
\* the integer written by the digits of s, all other characters skipped
DigitsValue(s, acc) ==
    IF s = <<>> THEN acc
    ELSE DigitsValue(Tail(s),
                     IF IsDigit(Head(s)) THEN 10 * acc + DigitVal(Head(s)) ELSE acc)

\* float(s) for a str over digits, ".", "+", "-" and letters: an optional
\* sign, digits with at most one ".", at least one digit; anything else is
\* a ValueError.  (Exponents, inf, nan, blanks and "_" are outside the
\* alphabet of the modelled documents.)
ParseFloat(s) ==
    LET signed == s # <<>> /\ Head(s) \in {"+", "-"}
        body   == IF signed THEN Tail(s) ELSE s
        dots   == {i \in 1..Len(body) : body[i] = "."}
        digs   == {i \in 1..Len(body) : IsDigit(body[i])}
        good   == /\ Cardinality(dots) <= 1
                  /\ Cardinality(digs) >= 1
                  /\ Cardinality(dots) + Cardinality(digs) = Len(body)
        frac   == IF dots = {} THEN 0
                  ELSE Len(body) - (CHOOSE i \in dots : TRUE)
        mag    == DigitsValue(body, 0)
        neg    == signed /\ Head(s) = "-"
    IN  IF good
        THEN [ok |-> TRUE,  q |-> Norm(IF neg THEN -mag ELSE mag, Pow10(frac))]
        ELSE [ok |-> FALSE, q |-> <<0, 1>>]


(* ----------------------------- exceptions ----------------------------- *)
\* cls is the Python class the except clause tests, kind the spec's name.
Exc(cls, kind, status, snippet, codes) ==
    [cls |-> cls, kind |-> kind, status |-> status, snippet |-> snippet,
     codes |-> codes]
NoCodes == <<<<>>, <<>>>>

MissingCredential == Exc("ValueError", "MissingCredential", 0, <<>>, NoCodes)
TransportError    == Exc("RuntimeError", "TransportError", 0, <<>>, NoCodes)
HttpError(status, text) ==
    Exc("RuntimeError", "HttpError", status, Prefix(text, SnippetLen), NoCodes)
\* r.json(): json.JSONDecodeError / requests.exceptions.JSONDecodeError,
\* both subclasses of ValueError
JsonError         == Exc("ValueError", "JSONDecodeError", 0, <<>>, NoCodes)
UnexpectedResponseShape ==
    Exc("RuntimeError", "UnexpectedResponseShape", 0, <<>>, NoCodes)
\* '"conversion_rates" in data' on None or a number
NotIterable       == Exc("TypeError", "NotIterable", 0, <<>>, NoCodes)
\* data["rates"].items() on a value that is no dict
NoItems           == Exc("AttributeError", "NoItems", 0, <<>>, NoCodes)
\* float("x")
BadFloatString    == Exc("ValueError", "BadFloatString", 0, <<>>, NoCodes)
\* float(None)
BadFloatType      == Exc("TypeError", "BadFloatType", 0, <<>>, NoCodes)
UnsupportedCurrency(f, t) ==
    Exc("ValueError", "UnsupportedCurrency", 0, <<>>, <<f, t>>)
\* rate_to / rate_from with a str or None operand
BadOperand        == Exc("TypeError", "BadOperand", 0, <<>>, NoCodes)
ZeroDivision      == Exc("ZeroDivisionError", "ZeroDivision", 0, <<>>, NoCodes)

\* except (ValueError, RuntimeError)
Handles(e) == e.cls \in {"ValueError", "RuntimeError"}

(* ----------------------------- fetch_rates ---------------------------- *)
\* build_url
build_url(api_key, base) == [key |-> api_key.s, base |-> ToUpper(base)]

\* a test that lets every 2xx status through
StatusOk2xx(status) == status \in 200..299
\* r.status_code != 200 is the failure test
StatusOk(status) == status = 200

\* A parsed document.  kind: "malformed" (r.json() raises), "null", "list",
\* or "dict"; has: the keys a dict holds.
Doc(kind, has, cr, rt, bc, b, tu, dt) ==
    [kind |-> kind, has |-> has, conversion_rates |-> cr, rates |-> rt,
     base_code |-> bc, base |-> b, time_last_update_utc |-> tu, date |-> dt]

\* dict.get(key, default): the default only when the key is absent
Get(d, k, default) == IF k \in d.has THEN d[k] ELSE default

\* float(v) for one JSON value
FloatOf(v) ==
    CASE v.t = "num" -> [ok |-> TRUE,  v |-> v, err |-> <<>>]
      [] v.t = "str" ->
            LET p == ParseFloat(v.s)
            IN  IF p.ok THEN [ok |-> TRUE, v |-> JNum(p.q[1], p.q[2]), err |-> <<>>]
                ELSE [ok |-> FALSE, v |-> JNull, err |-> <<BadFloatString>>]
      [] OTHER       -> [ok |-> FALSE, v |-> JNull, err |-> <<BadFloatType>>]

RECURSIVE FloatItems(_)
\* {k: float(v) for k, v in items}: in document order, the first value
\* float() rejects raises
FloatItems(items) ==
    IF items = <<>> THEN [ok |-> TRUE, items |-> <<>>, err |-> <<>>]
    ELSE LET h == FloatOf(Head(items)[2])
         IN  IF ~h.ok THEN [ok |-> FALSE, items |-> <<>>, err |-> h.err]
             ELSE LET r == FloatItems(Tail(items))
                  IN  IF r.ok
                      THEN [ok |-> TRUE, items |-> <<<<Head(items)[1], h.v>>>> \o r.items,
                            err |-> <<>>]
                      ELSE r

Table(base, rates, updated) == [base |-> base, rates |-> rates, updated |-> updated]
Returns(t) == [ok |-> TRUE,  table |-> <<t>>, err |-> <<>>]
Raises(e)  == [ok |-> FALSE, table |-> <<>>,  err |-> <<e>>]

\* the normalisation of fetch_rates (after data = r.json())
Normalize(data, base) ==
    IF data.kind \in {"null"} THEN Raises(NotIterable)
    ELSE IF data.kind = "dict" /\ "conversion_rates" \in data.has
    THEN Returns(Table(Get(data, "base_code", JStr(ToUpper(base))),
                       data.conversion_rates,
                       Get(data, "time_last_update_utc", JStr(UNKNOWN))))
    ELSE IF data.kind = "dict" /\ "rates" \in data.has
    THEN IF data.rates.t # "dict" THEN Raises(NoItems)
         ELSE LET f == FloatItems(data.rates.items)
              IN  IF f.ok
                  THEN Returns(Table(Get(data, "base", JStr(ToUpper(base))),
                                     JDict(f.items),
                                     Get(data, "date", JStr(UNKNOWN))))
                  ELSE Raises(f.err[1])
    ELSE Raises(UnexpectedResponseShape)

(* ---------------------------- convert_amount -------------------------- *)
Value(q)  == [ok |-> TRUE,  value |-> <<q>>, err |-> <<>>]
Throws(e) == [ok |-> FALSE, value |-> <<>>,  err |-> <<e>>]

\* rates[from_code], rates[to_code] and amount * (rate_to / rate_from)
Ratio(amount, rate_from, rate_to) ==
    IF rate_to.t # "num" \/ rate_from.t # "num" THEN Throws(BadOperand)
    ELSE IF rate_from.q[1] = 0 THEN Throws(ZeroDivision)
    ELSE Value(RMul(amount, RDiv(rate_to.q, rate_from.q)))

\* the codes looked up as typed, without .upper()
convert_amount_NoUpper(amount, from_code, to_code, rates) ==
    IF rates.t # "dict" THEN Throws(NotIterable)
    ELSE IF from_code \notin Keys(rates.items) \/ to_code \notin Keys(rates.items)
         THEN Throws(UnsupportedCurrency(from_code, to_code))
         ELSE Ratio(amount, Lookup(rates.items, from_code), Lookup(rates.items, to_code))

\* amount * rate_to, the division by rate_from forgotten
convert_amount_NoDivision(amount, from_code, to_code, rates) ==
    LET f == ToUpper(from_code)
        t == ToUpper(to_code)
    IN  IF rates.t # "dict" THEN Throws(NotIterable)
        ELSE IF f \notin Keys(rates.items) \/ t \notin Keys(rates.items)
             THEN Throws(UnsupportedCurrency(f, t))
             ELSE Ratio(amount, JNum(1, 1), Lookup(rates.items, t))

\* amount * (rate_to - rate_from + 1): right on the diagonal only
convert_amount_Difference(amount, from_code, to_code, rates) ==
    LET f == ToUpper(from_code)
        t == ToUpper(to_code)
    IN  IF rates.t # "dict" THEN Throws(NotIterable)
        ELSE IF f \notin Keys(rates.items) \/ t \notin Keys(rates.items)
             THEN Throws(UnsupportedCurrency(f, t))
             ELSE LET a == Lookup(rates.items, f)
                      b == Lookup(rates.items, t)
                  IN  IF a.t # "num" \/ b.t # "num" THEN Throws(BadOperand)
                      ELSE Value(RMul(amount,
                                 Norm(b.q[1] * a.q[2] - a.q[1] * b.q[2] + a.q[2] * b.q[2],
                                      a.q[2] * b.q[2])))

convert_amount(amount, from_code, to_code, rates) ==
    LET f == ToUpper(from_code)
        t == ToUpper(to_code)
    IN  IF rates.t # "dict" THEN Throws(NotIterable)
        ELSE IF f \notin Keys(rates.items) \/ t \notin Keys(rates.items)
             THEN Throws(UnsupportedCurrency(f, t))
             ELSE Ratio(amount, Lookup(rates.items, f), Lookup(rates.items, t))

(* ------------------------- inputs of the model ------------------------ *)
USD == <<"U","S","D">>
EUR == <<"E","U","R">>
GBP == <<"G","B","P">>

\* os.getenv("API_KEY"): unset, empty, set
ApiKeys == {JNull, JStr(<<>>), JStr(<<"k">>)}
\* from_currency / to_currency as typed: lower, upper and mixed case, and a
\* code no table holds
ArgCodes == {<<"u","s","d">>, USD, <<"E","u","r">>, <<"X","Y","Z">>}
ArgBases == {<<"u","s","d">>, EUR}
ArgAmounts == {<<5, 2>>, <<100, 1>>}
ArgRounds == {-1, RoundDefault}

Args == [amount : ArgAmounts, from_currency : ArgCodes, to_currency : ArgCodes,
         base : ArgBases, round : ArgRounds]

\* rate mappings a provider may send
RatesNum    == JDict(<< <<USD, JNum(1, 1)>>, <<EUR, JNum(9, 10)>> >>)
RatesZero   == JDict(<< <<USD, JNum(0, 1)>>, <<EUR, JNum(9, 10)>> >>)
RatesNoBase == JDict(<< <<EUR, JNum(9, 10)>>, <<GBP, JNum(4, 5)>> >>)
RatesStr    == JDict(<< <<USD, JStr(<<"1",".","0">>)>>, <<EUR, JStr(<<"0",".","9">>)>> >>)
RatesStrZero == JDict(<< <<USD, JStr(<<"0">>)>>, <<EUR, JStr(<<".","9">>)>> >>)
RatesBadStr == JDict(<< <<USD, JStr(<<"1">>)>>, <<EUR, JStr(<<"x">>)>> >>)
RatesNull   == JDict(<< <<USD, JStr(<<"1">>)>>, <<EUR, JNull>> >>)
RatesBadThenNull == JDict(<< <<USD, JStr(<<"1",".","2",".","3">>)>>, <<EUR, JNull>> >>)
RatesLowerKey == JDict(<< <<<<"u","s","d">>, JNum(1, 1)>>, <<EUR, JNum(9, 10)>> >>)

T1 == JStr(<<"t","1">>)
T2 == JStr(<<"t","2">>)

DocA(has, cr, bc, tu) == Doc("dict", has, cr, JNoDict, bc, JNull, tu, JNull)
DocB(has, rt, b, dt)  == Doc("dict", has, JNoDict, rt, JNull, b, JNull, dt)
Malformed == Doc("malformed", {}, JNoDict, JNoDict, JNull, JNull, JNull, JNull)
FullA == DocA({"conversion_rates", "base_code", "time_last_update_utc"},
              RatesNum, JStr(USD), T1)

Docs ==
    { Malformed,
      Doc("null", {}, JNoDict, JNoDict, JNull, JNull, JNull, JNull),
      Doc("list", {}, JNoDict, JNoDict, JNull, JNull, JNull, JNull),
      \* shape A
      FullA,
      DocA({"conversion_rates"}, RatesNum, JNull, JNull),
      DocA({"conversion_rates", "base_code", "time_last_update_utc"},
           RatesNoBase, JNull, JStr(<<>>)),
      DocA({"conversion_rates", "base_code"}, RatesZero, JStr(USD), JNull),
      DocA({"conversion_rates"}, RatesStr, JNull, JNull),
      DocA({"conversion_rates"}, RatesLowerKey, JNull, JNull),
      DocA({"conversion_rates"}, JNoDict, JNull, JNull),
      \* both keys
      Doc("dict", {"conversion_rates", "rates", "base_code", "base", "date"},
          RatesNum, RatesBadStr, JStr(USD), JStr(EUR), JNull, T2),
      \* shape B
      DocB({"rates", "base", "date"}, RatesStr, JStr(USD), T2),
      DocB({"rates"}, RatesNum, JNull, JNull),
      DocB({"rates", "base", "date"}, RatesStrZero, JNull, JStr(<<>>)),
      DocB({"rates"}, RatesBadStr, JNull, JNull),
      DocB({"rates"}, RatesNull, JNull, JNull),
      DocB({"rates"}, RatesBadThenNull, JNull, JNull),
      DocB({"rates"}, JNoDict, JNull, JNull),
      \* neither key
      Doc("dict", {}, JNoDict, JNoDict, JNull, JNull, JNull, JNull),
      Doc("dict", {"base", "date"}, JNoDict, JNoDict, JNull, JStr(USD), JNull, T2) }

\* a response text of n characters
Text(n) == [i \in 1..n |-> <<"a", "b", "x">>[(i % 3) + 1]]
TextLens == {0, SnippetLen, SnippetLen + 50}
Statuses == {200, 204, 404, 500}

Response(status, text, body) == [status |-> status, text |-> text, body |-> body]
Responses ==
    {Response(200, Text(2), d) : d \in Docs}
    \cup {Response(st, Text(n), d) :
             st \in Statuses \ {200}, n \in TextLens, d \in {Malformed, FullA}}

(* ------------------------------- state -------------------------------- *)
VARIABLES
    pc,         \* where the run of main is
    api_key,    \* os.getenv("API_KEY")
    args,       \* parse_args(...)
    sent,       \* the GETs this run has issued
    resp,       \* r, the response (optional)
    data,       \* r.json() (optional)
    table,      \* what fetch_rates returned (optional)
    result,     \* what convert_amount returned (optional)
    rounded,    \* round(result, args.round) (optional)
    err,        \* the exception in flight (optional)
    out,        \* what the run has written, in order
    exitCode,   \* the process status, -1 while running
    caught,     \* how often the except clause of main was entered this run
    runs,       \* how often the script was started
    calls,      \* fetch_rates invocations that got past the credential check
    totalGets,  \* GETs issued over all runs
    law         \* the inputs and results of the convert_amount laws

mainVars == <<pc, api_key, args, sent, resp, data, table, result, rounded, err,
              out, exitCode, caught, runs, calls, totalGets>>
vars == <<mainVars, law>>

Line(stream, kind, text, e, shows) ==
    [stream |-> stream, kind |-> kind, text |-> text, err |-> e, shows |-> shows]

\* what main prints on success: two fixed lines, neither shows the result
SuccessLines ==
    << Line("stdout", "success", "Output improved", <<>>, {}),
       Line("stdout", "success", "=== Currency Converter v1.0 ===", <<>>, {}) >>
\* print(f"Error: {e}")
Diagnostic(e) == Line("stdout", "diagnostic", "Error: ", <<e>>, {})
\* the interpreter's report of an exception nothing caught
Traceback(e)  == Line("stderr", "traceback", "Traceback", <<e>>, {})

LawIdle == [pc |-> "idle", x |-> <<0, 1>>, a |-> <<>>, b |-> <<>>, R |-> JNoDict,
            k |-> <<1, 1>>, fwd |-> Throws(NotIterable), back |-> Throws(NotIterable),
            scaled |-> Throws(NotIterable)]

\* main, lines 93-97: the key and the arguments are read
StartRun(n, g, c) ==
    /\ pc = "fetch_rates"
    /\ api_key \in ApiKeys
    /\ args \in Args
    /\ sent = <<>> /\ resp = <<>> /\ data = <<>> /\ table = <<>>
    /\ result = <<>> /\ rounded = <<>> /\ err = <<>> /\ out = <<>>
    /\ exitCode = -1 /\ caught = 0
    /\ runs = n /\ calls = c /\ totalGets = g

Init == StartRun(1, 0, 0) /\ law = LawIdle

Raise(e) ==
    /\ err' = <<e>>
    /\ pc' = "except"

\* fetch_rates: if not api_key: raise ValueError
CheckCredential ==
    /\ pc = "fetch_rates"
    /\ IF Falsy(api_key)
       THEN /\ Raise(MissingCredential)
            /\ calls' = calls
       ELSE /\ pc' = "get"
            /\ calls' = calls + 1
            /\ err' = err
    /\ UNCHANGED <<api_key, args, sent, resp, data, table, result, rounded, out,
                   exitCode, caught, runs, totalGets, law>>

\* main passes args.base.upper(); build_url upper-cases again
Request == [url |-> build_url(api_key, ToUpper(args.base)), timeout |-> Timeout]

\* a fetch that tries once more after a transport failure
RequestsGetRetrying ==
    /\ pc = "get"
    /\ sent' = Append(sent, Request)
    /\ totalGets' = totalGets + 1
    /\ \/ /\ IF Len(sent) = 0
             THEN pc' = "get" /\ err' = err
             ELSE Raise(TransportError)
          /\ resp' = resp
       \/ /\ \E r \in Responses : resp' = <<r>>
          /\ pc' = "status"
          /\ err' = err
    /\ UNCHANGED <<api_key, args, data, table, result, rounded, out, exitCode,
                   caught, runs, calls, law>>

\* url = build_url(...); r = requests.get(url, timeout=10)
RequestsGet ==
    /\ pc = "get"
    /\ sent' = Append(sent, Request)
    /\ totalGets' = totalGets + 1
    /\ \/ /\ Raise(TransportError)
          /\ resp' = resp
       \/ /\ \E r \in Responses : resp' = <<r>>
          /\ pc' = "status"
          /\ err' = err
    /\ UNCHANGED <<api_key, args, data, table, result, rounded, out, exitCode,
                   caught, runs, calls, law>>

\* if r.status_code != 200: raise RuntimeError(f"HTTP ...")
CheckStatus ==
    /\ pc = "status"
    /\ IF StatusOk(resp[1].status)
       THEN pc' = "json" /\ err' = err
       ELSE Raise(HttpError(resp[1].status, resp[1].text))
    /\ UNCHANGED <<api_key, args, sent, resp, data, table, result, rounded, out,
                   exitCode, caught, runs, calls, totalGets, law>>

\* data = r.json()
ParseJson ==
    /\ pc = "json"
    /\ IF resp[1].body.kind = "malformed"
       THEN Raise(JsonError) /\ data' = data
       ELSE data' = <<resp[1].body>> /\ pc' = "normalize" /\ err' = err
    /\ UNCHANGED <<api_key, args, sent, resp, table, result, rounded, out,
                   exitCode, caught, runs, calls, totalGets, law>>

\* the if / elif / else over the keys of data; fetch_rates returns
NormalizeShape ==
    /\ pc = "normalize"
    /\ LET n == Normalize(data[1], ToUpper(args.base))
       IN  IF n.ok
           THEN table' = n.table /\ pc' = "convert" /\ err' = err
           ELSE Raise(n.err[1]) /\ table' = table
    /\ UNCHANGED <<api_key, args, sent, resp, data, result, rounded, out,
                   exitCode, caught, runs, calls, totalGets, law>>

ConvertStep(printed) ==
    /\ pc = "convert"
    /\ LET c == convert_amount(args.amount, args.from_currency, args.to_currency,
                               table[1].rates)
       IN  IF c.ok
           THEN result' = c.value /\ pc' = "print" /\ err' = err
           ELSE Raise(c.err[1]) /\ result' = result
    /\ out' = out \o printed
    /\ UNCHANGED <<api_key, args, sent, resp, data, table, rounded,
                   exitCode, caught, runs, calls, totalGets, law>>

\* a driver that prints its first line before it converts
ConvertAmountAfterPrinting == ConvertStep(SubSeq(SuccessLines, 1, 1))
\* rates = data["rates"]; result = convert_amount(...)
ConvertAmount == ConvertStep(<<>>)

\* rounded = round(result, args.round); the two print calls; main returns
PrintResult ==
    /\ pc = "print"
    /\ rounded' = <<Round(result[1], args.round)>>
    /\ out' = out \o SuccessLines
    /\ exitCode' = 0
    /\ pc' = "exit"
    /\ UNCHANGED <<api_key, args, sent, resp, data, table, result, err,
                   caught, runs, calls, totalGets, law>>

\* except (ValueError, RuntimeError) as e: print; sys.exit(1).  Any other
\* exception leaves main: the interpreter writes the traceback to stderr and
\* the process ends with status 1.
Except ==
    /\ pc = "except"
    /\ IF Handles(err[1])
       THEN /\ caught' = caught + 1
            /\ out' = Append(out, Diagnostic(err[1]))
       ELSE /\ caught' = caught
            /\ out' = Append(out, Traceback(err[1]))
    /\ exitCode' = 1
    /\ pc' = "exit"
    /\ UNCHANGED <<api_key, args, sent, resp, data, table, result, rounded, err,
                   runs, calls, totalGets, law>>

\* the script is started again: nothing of the last run is kept
NewRun ==
    /\ pc = "exit"
    /\ runs < MaxRuns
    /\ pc' = "fetch_rates"
    /\ api_key' \in ApiKeys
    /\ args' \in Args
    /\ sent' = <<>> /\ resp' = <<>> /\ data' = <<>> /\ table' = <<>>
    /\ result' = <<>> /\ rounded' = <<>> /\ err' = <<>> /\ out' = <<>>
    /\ exitCode' = -1 /\ caught' = 0
    /\ runs' = runs + 1
    /\ UNCHANGED <<calls, totalGets, law>>

Next ==
    \/ CheckCredential
    \/ RequestsGet
    \/ CheckStatus
    \/ ParseJson
    \/ NormalizeShape
    \/ ConvertAmount
    \/ PrintResult
    \/ Except
    \/ NewRun

Spec == Init /\ [][Next]_vars

(* ------------------ convert_amount as a pure function ----------------- *)
\* The laws of convert_amount are checked on calls of the function itself:
\* a forward call, the call back on its result, and the forward call on the
\* same mapping re-expressed relative to another base (every rate times k).

PosRationals == {Norm(n, d) : n \in 1..MaxNum, d \in 1..MaxDen}
LawAmounts   == {Norm(n, d) : n \in -1..MaxNum, d \in 1..MaxDen}
LawCodes     == {USD, <<"e","u","r">>}
\* mappings with positive rates; a mapping without the rate 1 holds no base
LawTables    == {JDict(<< <<USD, JNum(p[1], p[2])>>, <<EUR, JNum(q[1], q[2])>> >>) :
                    p \in PosRationals, q \in PosRationals}

\* every rate of R times k
Scale(k, R) ==
    JDict([i \in 1..Len(R.items) |->
              <<R.items[i][1],
                LET q == RMul(k, R.items[i][2].q) IN JNum(q[1], q[2])>>])

MainIdle ==
    /\ pc = "idle"
    /\ api_key = JNull
    /\ args = [amount |-> <<0, 1>>, from_currency |-> <<>>, to_currency |-> <<>>,
               base |-> <<>>, round |-> RoundDefault]
    /\ sent = <<>> /\ resp = <<>> /\ data = <<>> /\ table = <<>>
    /\ result = <<>> /\ rounded = <<>> /\ err = <<>> /\ out = <<>>
    /\ exitCode = -1 /\ caught = 0 /\ runs = 0 /\ calls = 0 /\ totalGets = 0

LawInit ==
    /\ MainIdle
    /\ \E x \in LawAmounts, a \in LawCodes, b \in LawCodes, R \in LawTables,
          k \in PosRationals :
          law = [LawIdle EXCEPT !.pc = "start", !.x = x, !.a = a, !.b = b,
                                !.R = R, !.k = k]

\* convert_amount(x, a, b, R)
LawForward ==
    /\ law.pc = "start"
    /\ law' = [law EXCEPT !.pc = "forward",
                          !.fwd = convert_amount(law.x, law.a, law.b, law.R)]
    /\ UNCHANGED mainVars

\* convert_amount(convert_amount(x, a, b, R), b, a, R)
LawBack ==
    /\ law.pc = "forward"
    /\ law.fwd.ok
    /\ law' = [law EXCEPT !.pc = "back",
                          !.back = convert_amount(law.fwd.value[1], law.b, law.a, law.R)]
    /\ UNCHANGED mainVars

\* convert_amount(x, a, b, k*R)
LawScaled ==
    /\ law.pc = "back"
    /\ law' = [law EXCEPT !.pc = "done",
                          !.scaled = convert_amount(law.x, law.a, law.b,
                                                    Scale(law.k, law.R))]
    /\ UNCHANGED mainVars

LawNext == LawForward \/ LawBack \/ LawScaled

SpecLaw == LawInit /\ [][LawNext]_vars

(* ------------------------------- claims ------------------------------- *)
Failed     == err # <<>>
Finished   == pc = "exit"
KeyMissing == api_key = JNull \/ api_key = JStr(<<>>)
KindsOf(o) == {o[i].kind : i \in 1..Len(o)}
FromCode   == ToUpper(args.from_currency)
ToCode     == ToUpper(args.to_currency)

\* C1: with API_KEY unset or empty, fetch_rates raises the missing-credential
\* ValueError and the run never builds a URL, issues a GET or holds a
\* response: past the credential check the run is in, or through, the
\* except clause with that error and nothing sent.
C1_MissingKeyFailsBeforeAnyGet ==
    (KeyMissing /\ pc # "fetch_rates") =>
        /\ pc \in {"except", "exit"}
        /\ err = <<MissingCredential>>
        /\ err[1].cls = "ValueError"
        /\ sent = <<>>
        /\ resp = <<>>

C1_Witness ==
    /\ api_key = JStr(<<>>)
    /\ Finished
    /\ err = <<MissingCredential>>
    /\ sent = <<>>
    /\ runs = 2 /\ totalGets = 1

\* C2: every error raised inside fetch_rates or convert_amount is caught
\* exactly once by main's except clause, printed as the single diagnostic
\* line of the run, and the process ends with status 1.
C2_EveryErrorCaughtOnce ==
    (Finished /\ Failed) =>
        /\ caught = 1
        /\ out = <<Diagnostic(err[1])>>
        /\ exitCode = 1

ExpectedA(d) ==
    Table(IF "base_code" \in d.has THEN d.base_code ELSE JStr(ToUpper(args.base)),
          d.conversion_rates,
          IF "time_last_update_utc" \in d.has THEN d.time_last_update_utc
          ELSE JStr(UNKNOWN))

Convertible(v) == v.t = "num" \/ (v.t = "str" /\ ParseFloat(v.s).ok)
AsFloat(v) == IF v.t = "num" THEN v
              ELSE LET q == ParseFloat(v.s).q IN JNum(q[1], q[2])
AllConvertible(r) ==
    r.t = "dict" /\ \A i \in 1..Len(r.items) : Convertible(r.items[i][2])

ExpectedB(d) ==
    Table(IF "base" \in d.has THEN d.base ELSE JStr(ToUpper(args.base)),
          JDict([i \in 1..Len(d.rates.items) |->
                    <<d.rates.items[i][1], AsFloat(d.rates.items[i][2])>>]),
          IF "date" \in d.has THEN d.date ELSE JStr(UNKNOWN))

Normalized == data # <<>> /\ pc # "normalize"

C4_Shapes(kinds) ==
    Normalized =>
        LET d == data[1]
        IN  /\ "conversion_rates" \in d.has => table = <<ExpectedA(d)>>
            /\ ("conversion_rates" \notin d.has /\ "rates" \in d.has
                  /\ AllConvertible(d.rates)) => table = <<ExpectedB(d)>>
            /\ (d.kind \in kinds /\ "conversion_rates" \notin d.has
                  /\ "rates" \notin d.has) =>
                   table = <<>> /\ err = <<UnexpectedResponseShape>>

\* C4: a 200 body is normalised by key presence: with conversion_rates the
\* table is {base_code or the upper-cased input base, conversion_rates as
\* sent, time_last_update_utc or "unknown"}; with rates alone it is {base or
\* the upper-cased input base, every rate converted to float, date or
\* "unknown"}; a body with neither key fails with UnexpectedResponseShape
\* and yields no table.
C4_NormalizesByKeyPresence == C4_Shapes({"dict", "list", "null"})

\* The same, for the bodies that are JSON objects or arrays.
C4_OnObjectsAndArrays == C4_Shapes({"dict", "list"})

C4_OnObjectsAndArrays_Witness ==
    /\ Normalized
    /\ {"conversion_rates", "rates"} \subseteq data[1].has
    /\ table = <<Table(JStr(USD), RatesNum, JStr(UNKNOWN))>>

\* C5 (original): UnsupportedCurrency, naming both upper-cased codes, is
\* raised exactly when one of them is no key of rates, and whenever both are
\* keys (of a mapping to numbers) the call returns a number.
Converted == table # <<>> /\ table[1].rates.t = "dict"
                /\ pc \in {"print", "except", "exit"}
RateKeys  == Keys(table[1].rates.items)
Unsupported == Failed /\ err[1].kind = "UnsupportedCurrency"

NumericRates ==
    \A i \in 1..Len(table[1].rates.items) : table[1].rates.items[i][2].t = "num"

C5_ReturnsNumberWheneverBothAreKeys ==
    (Converted /\ NumericRates) =>
        /\ Unsupported <=> (FromCode \notin RateKeys \/ ToCode \notin RateKeys)
        /\ (FromCode \in RateKeys /\ ToCode \in RateKeys) => result # <<>>

\* C5 (amended): UnsupportedCurrency (a ValueError naming both upper-cased
\* codes) is raised exactly when an upper-cased code is no key of rates,
\* whatever the rates are; when both are keys the call returns
\* amount * (rate_to / rate_from) if both rates are numbers and rate_from is
\* not zero, and otherwise raises the arithmetic's own error
\* (ZeroDivisionError, TypeError), never UnsupportedCurrency.
C5_UnsupportedExactlyWhenNotAKey ==
    Converted =>
        /\ Unsupported <=> (FromCode \notin RateKeys \/ ToCode \notin RateKeys)
        /\ Unsupported =>
              /\ err[1].cls = "ValueError"
              /\ err[1].codes = <<FromCode, ToCode>>
              /\ result = <<>>
        /\ (FromCode \in RateKeys /\ ToCode \in RateKeys) =>
              LET rf == Lookup(table[1].rates.items, FromCode)
                  rt == Lookup(table[1].rates.items, ToCode)
              IN  IF rf.t = "num" /\ rt.t = "num" /\ rf.q[1] # 0
                  THEN /\ ~Failed
                       /\ result = <<Norm(args.amount[1] * rt.q[1] * rf.q[2],
                                          args.amount[2] * rt.q[2] * rf.q[1])>>
                  ELSE /\ result = <<>>
                       /\ Failed
                       /\ err[1].kind \in {"ZeroDivision", "BadOperand"}

C5_Witness ==
    /\ Converted
    /\ args.from_currency = <<"u","s","d">>
    /\ args.to_currency = <<"E","u","r">>
    /\ result = <<<<9, 4>>>>

\* C6 (original): every run of main has issued exactly one GET when it ends.
C6_ExactlyOneGetPerRun ==
    Finished => Len(sent) = 1

\* C6 (amended): an invocation of fetch_rates issues at most one GET, and
\* exactly one once it is past the credential check with a non-empty key
\* (none at all with a missing key): no failure leads to a second GET, and
\* every invocation past the credential check issues a GET of its own, a
\* table being made of the response to that GET.
C6_OneGetPerKeyedInvocation ==
    /\ Len(sent) <= 1
    /\ (~KeyMissing /\ pc \notin {"fetch_rates", "get"}) => Len(sent) = 1
    /\ KeyMissing => sent = <<>>
    /\ totalGets = calls - (IF pc = "get" THEN 1 ELSE 0)
    /\ table # <<>> =>
          /\ Len(sent) = 1
          /\ resp # <<>>
          /\ data = <<resp[1].body>>

C6_Witness ==
    /\ Finished
    /\ runs = 2
    /\ Failed /\ err[1].kind = "TransportError"
    /\ Len(sent) = 1
    /\ totalGets = 2

\* C7 (original): a non-2xx status fails with HttpError (status, at most
\* the first 200 characters of the text) before the body is parsed; a 2xx
\* status is not rejected as an HttpError and goes on to JSON parsing.
Answered == resp # <<>> /\ pc # "status"
IsHttpError == Failed /\ err[1].kind = "HttpError"
RejectedUnparsed ==
    /\ IsHttpError
    /\ err[1].status = resp[1].status
    /\ Len(err[1].snippet) <= SnippetLen
    /\ \A i \in 1..Len(err[1].snippet) : err[1].snippet[i] = resp[1].text[i]
    /\ Len(err[1].snippet) = SnippetLen \/ err[1].snippet = resp[1].text
    /\ data = <<>> /\ table = <<>>
Proceeded ==
    /\ ~IsHttpError
    /\ pc = "json" \/ data # <<>> \/ err = <<JsonError>>

C7_Non2xxIsHttpError ==
    Answered =>
        /\ resp[1].status \notin 200..299 => RejectedUnparsed
        /\ resp[1].status \in 200..299 => Proceeded

\* C7 (amended): a status other than 200 fails with HttpError (status, at
\* most the first 200 characters of the text) before the body is parsed;
\* status 200 is not rejected and goes on to JSON parsing.
C7_Non200IsHttpError ==
    Answered =>
        /\ resp[1].status # 200 => RejectedUnparsed
        /\ resp[1].status = 200 => Proceeded

C7_Witness ==
    /\ Finished
    /\ resp # <<>> /\ resp[1].status = 404 /\ resp[1].body = FullA
    /\ Len(resp[1].text) = SnippetLen + 50
    /\ IsHttpError /\ Len(err[1].snippet) = SnippetLen
    /\ data = <<>>

\* C8: on a successful run main rounds convert_amount's result to --round
\* digits, prints a line that reports the rounded result, and ends with
\* status 0.
C8_SuccessReportsRoundedResult ==
    (Finished /\ ~Failed) =>
        /\ exitCode = 0
        /\ rounded = <<Round(result[1], args.round)>>
        /\ \E i \in 1..Len(out) : rounded[1] \in out[i].shows

\* C9: over positive rates, exact arithmetic: converting a to b and back
\* gives the amount again, and converting a currency to itself is the
\* identity.
C9_RoundTrip ==
    /\ law.pc \in {"forward", "back", "done"} =>
          /\ law.fwd.ok
          /\ ToUpper(law.a) = ToUpper(law.b) => law.fwd.value = <<law.x>>
    /\ law.pc \in {"back", "done"} =>
          /\ law.back.ok
          /\ law.back.value = <<law.x>>

C9_Witness ==
    /\ law.pc = "back"
    /\ ToUpper(law.a) # ToUpper(law.b)
    /\ law.fwd.value # <<law.x>>
    /\ law.back.value = <<law.x>>
    /\ law.x = <<3, 2>>

==========================================================================
